---- MODULE Spec2Model ----
(***************************************************************************)
(* The Hello World action of src/src/index.js as a state machine.          *)
(*                                                                         *)
(* One behaviour is one call of run().  The host (@actions/core,           *)
(* @actions/github, Octokit, the clock) is the environment: what its       *)
(* calls return, and whether they throw, is chosen when the call is made;  *)
(* a call that returns a promise (repos.get, summary.write) is one step,   *)
(* and the settling of the promise run() awaits is a later one.            *)
(* Every host call the code makes is appended to `calls`, so the order of  *)
(* the effects of a run can be read off the state; `threw` marks a call    *)
(* that threw or whose promise was rejected.                               *)
(*                                                                         *)
(* Texts that the code inspects character by character (input names and   *)
(* values, the fields of the repository record, JSON text) are sequences   *)
(* of one-character strings; Str turns such a sequence into the string     *)
(* that a template literal produces from it.  The module is plain ASCII:   *)
(* a pictograph of the source is written as its name in brackets (Pic),    *)
(* and so are the letters outside ASCII whose case mapping is modelled.    *)
(*                                                                         *)
(* Faults.  core.getInput, core.info, core.setOutput and core.setSecret    *)
(* may throw an Error at every call; the Octokit constructor may throw and *)
(* the request may be rejected; each call of the summary chain may throw   *)
(* and the write may be rejected; a null count                             *)
(* in the response makes index.js:174-176 throw a TypeError.  core.warning *)
(* and core.setFailed, through which failures are reported, return.        *)
(***************************************************************************)
EXTENDS Naturals, Sequences, FiniteSets, TLC

VARIABLES
    pc,            \* the statement of run() that executes next
    ctx,           \* github.context.repo: [owner, repo]
    resolved,      \* what getInput returned for each input name read so far
    whoToGreet,    \* index.js:115
    includeTime,   \* index.js:116
    messagePrefix, \* index.js:117
    githubToken,   \* index.js:118
    greeting,      \* index.js:127
    currentTime,   \* index.js:136
    repoStats,     \* index.js:144
    summaryTable,  \* index.js:164
    fallbackRow,   \* index of the next row the fallback loop of index.js:188 writes
    awaited,       \* what the promise run() waits on at index.js:147 has settled with
    calls,         \* every host call made so far, in order
    raised,        \* every exception raised so far, in order
    err,           \* the exception the catch of index.js:194 is about to handle
    twinToken,     \* the token of a second run that differs in the token's value only
    twinLines,     \* the texts that second run has handed to the host's log
    probe          \* a getInput call on its own: [name, store, env, result]

vars == <<pc, ctx, resolved, whoToGreet, includeTime, messagePrefix, githubToken,
          greeting, currentTime, repoStats, summaryTable, fallbackRow, awaited, calls,
          raised, err, twinToken, twinLines, probe>>

----------------------------------------------------------------------------
(* Characters and strings.                                                 *)

Lower == <<"a","b","c","d","e","f","g","h","i","j","k","l","m",
           "n","o","p","q","r","s","t","u","v","w","x","y","z">>
Upper == <<"A","B","C","D","E","F","G","H","I","J","K","L","M",
           "N","O","P","Q","R","S","T","U","V","W","X","Y","Z">>

IndexIn(c, alphabet) ==
    IF \E i \in 1..Len(alphabet) : alphabet[i] = c
    THEN CHOOSE i \in 1..Len(alphabet) : alphabet[i] = c
    ELSE 0

\* letters outside ASCII, by name: a text is a sequence of characters, and
\* one of these names stands for one character
EAcute == "[E acute]"
eAcute == "[e acute]"
SharpS == "[sharp s]"
IDotAbove == "[I dot above]"
CombiningDot == "[combining dot above]"
KelvinSign == "[kelvin sign]"
LongS == "[long s]"

\* String.prototype.toLowerCase of one character: a string of one or two
LowerChar(c) ==
    IF IndexIn(c, Upper) > 0 THEN <<Lower[IndexIn(c, Upper)]>>
    ELSE IF c = EAcute THEN <<eAcute>>
    ELSE IF c = IDotAbove THEN <<"i", CombiningDot>>
    ELSE IF c = KelvinSign THEN <<"k">>
    ELSE <<c>>
\* String.prototype.toUpperCase of one character: a string of one or two
UpperChar(c) ==
    IF IndexIn(c, Lower) > 0 THEN <<Upper[IndexIn(c, Lower)]>>
    ELSE IF c = eAcute THEN <<EAcute>>
    ELSE IF c = SharpS THEN <<"S", "S">>
    ELSE IF c = LongS THEN <<"S">>
    ELSE <<c>>

RECURSIVE toLowerCase(_)
toLowerCase(s) == IF s = <<>> THEN <<>> ELSE LowerChar(Head(s)) \o toLowerCase(Tail(s))
RECURSIVE toUpperCase(_)
toUpperCase(s) == IF s = <<>> THEN <<>> ELSE UpperChar(Head(s)) \o toUpperCase(Tail(s))

\* name.replace(/-/g, '_')
DashToUnderscore(s) == [i \in 1..Len(s) |-> IF s[i] = "-" THEN "_" ELSE s[i]]

\* a pictograph of the source, by name
Pic(name) == "[" \o name \o "]"

\* the characters of s from position i on, as one string
RECURSIVE Joined(_, _)
Joined(s, i) == IF i > Len(s) THEN "" ELSE s[i] \o Joined(s, i + 1)

\* the string a template literal makes of a sequence of characters; the
\* sequence is taken once
Str(s) == CHOOSE text \in {Joined(chars, 1) : chars \in {s}} : TRUE

----------------------------------------------------------------------------
(* Input Resolver, index.js:36-57.                                         *)

InputPrefix == <<"I","N","P","U","T","_">>

\* index.js:42
EnvName(name) == InputPrefix \o toUpperCase(DashToUnderscore(name))

\* process.env[envName] || '' : a variable that is not set reads as undefined
EnvLookup(env, envName) ==
    IF Str(envName) \in DOMAIN env THEN env[Str(envName)] ELSE <<>>

\* a lookup that asks the environment first
GetInputMutEnvFirst(name, stored, env) ==
    IF EnvLookup(env, EnvName(name)) # <<>> THEN EnvLookup(env, EnvName(name)) ELSE stored
\* index.js:36-47, given what core.getInput(name) returned and process.env
getInput(name, stored, env) ==
    IF stored = <<>> THEN EnvLookup(env, EnvName(name)) ELSE stored

\* a coercion that ignores blanks
TruthyMutTrim(input) ==
    LET l == toLowerCase(SelectSeq(input, LAMBDA c : c # " "))
    IN  l = <<"t","r","u","e">> \/ l = <<"1">> \/ l = <<"y","e","s">>
\* index.js:54-57, given what getInput(name) returned
IsTrueInput(input) ==
    LET l == toLowerCase(input)
    IN  l = <<"t","r","u","e">> \/ l = <<"1">> \/ l = <<"y","e","s">>

\* a greeting without its closing mark
GreetingMutNoBang(prefix, name) == Str(prefix) \o ", " \o Str(name)
\* index.js:73-75
createGreeting(prefix, name) == Str(prefix) \o ", " \o Str(name) \o "!"

----------------------------------------------------------------------------
(* JavaScript values of the repository record: a number, a string or null. *)

JNum(n) == [t |-> "num", v |-> n]
JStr(s) == [t |-> "str", v |-> s]
JNull == [t |-> "null", v |-> 0]
JObj(r) == [t |-> "obj", v |-> r]

DigitChars == <<"0","1","2","3","4","5","6","7","8","9">>

\* Number.prototype.toString of a natural number
RECURSIVE Digits(_)
Digits(n) == IF n < 10 THEN <<DigitChars[n + 1]>>
             ELSE Digits(n \div 10) \o <<DigitChars[(n % 10) + 1]>>

\* `${value}` : the string coercion of a template literal
Coerce(x) == IF x.t = "num" THEN Str(Digits(x.v))
             ELSE IF x.t = "str" THEN Str(x.v)
             ELSE "null"

\* a value that || passes over: null, '' and 0
Falsy(x) == x.t = "null" \/ (x.t = "str" /\ x.v = <<>>) \/ (x.t = "num" /\ x.v = 0)

\* value || 'Unknown' (index.js:154, 177)
OrUnknownValue(x) == IF Falsy(x) THEN JStr(<<"U","n","k","n","o","w","n">>) ELSE x

\* `${value || 'Unknown'}` (index.js:154)
OrUnknown(x) == Coerce(OrUnknownValue(x))

\* the keys of the record of index.js:93-102, in the order they are written
RepoStatsKeys == <<"name", "stars", "forks", "issues", "language", "size",
                   "created", "updated">>

\* the characters of a key
KeyChars(k) ==
    CASE k = "name" -> <<"n","a","m","e">>
      [] k = "stars" -> <<"s","t","a","r","s">>
      [] k = "forks" -> <<"f","o","r","k","s">>
      [] k = "issues" -> <<"i","s","s","u","e","s">>
      [] k = "language" -> <<"l","a","n","g","u","a","g","e">>
      [] k = "size" -> <<"s","i","z","e">>
      [] k = "created" -> <<"c","r","e","a","t","e","d">>
      [] k = "updated" -> <<"u","p","d","a","t","e","d">>

\* JSON.stringify of one character of a string: " and \ behind a backslash,
\* the control characters that have a letter by that letter (the others,
\* which JSON.stringify writes as \u00XX, cannot be written in a string here)
EscapeChar(c) ==
    IF c = "\"" \/ c = "\\" THEN <<"\\", c>>
    ELSE IF c = "\t" THEN <<"\\", "t">>
    ELSE IF c = "\n" THEN <<"\\", "n">>
    ELSE IF c = "\r" THEN <<"\\", "r">>
    ELSE IF c = "\f" THEN <<"\\", "f">>
    ELSE <<c>>

\* JSON.stringify of the characters of a string
RECURSIVE Escape(_)
Escape(s) == IF s = <<>> THEN <<>> ELSE EscapeChar(Head(s)) \o Escape(Tail(s))

Quote(s) == <<"\"">> \o Escape(s) \o <<"\"">>

\* JSON.stringify of a number, a string or null
StringifyScalar(x) ==
    IF x.t = "num" THEN Digits(x.v)
    ELSE IF x.t = "str" THEN Quote(x.v)
    ELSE <<"n","u","l","l">>

RECURSIVE StringifyMembers(_, _)
StringifyMembers(r, keys) ==
    IF keys = <<>> THEN <<>>
    ELSE Quote(KeyChars(Head(keys))) \o <<":">> \o StringifyScalar(r[Head(keys)])
         \o (IF Len(keys) > 1 THEN <<",">> ELSE <<>>)
         \o StringifyMembers(r, Tail(keys))

\* a serialization that leaves out the members that are null
StringifyMutDropNull(x) ==
    LET kept == SelectSeq(RepoStatsKeys, LAMBDA k : x.v[k].t # "null")
    IN  <<"{">> \o StringifyMembers(x.v, kept) \o <<"}">>
\* JSON.stringify(repoStats), index.js:156
JSONstringify(x) == <<"{">> \o StringifyMembers(x.v, RepoStatsKeys) \o <<"}">>

(* JSON.parse of the text of an object of scalars.  Each Parse operator    *)
(* takes the text and the position to read at and gives the value read and *)
(* the position after it; a position of 0 means the text is not JSON.      *)

\* the character a backslash and the letter c stand for
Unescaped(c) ==
    IF c = "t" THEN "\t" ELSE IF c = "n" THEN "\n" ELSE IF c = "r" THEN "\r"
    ELSE IF c = "f" THEN "\f" ELSE c

RECURSIVE ParseStringFrom(_, _, _)
\* the characters of a string literal from position i, its opening quote read
ParseStringFrom(text, i, acc) ==
    IF i > Len(text) THEN [val |-> <<>>, pos |-> 0]
    ELSE IF text[i] = "\"" THEN [val |-> acc, pos |-> i + 1]
    ELSE IF text[i] = "\\"
         THEN IF i + 1 > Len(text) THEN [val |-> <<>>, pos |-> 0]
              ELSE ParseStringFrom(text, i + 2, Append(acc, Unescaped(text[i + 1])))
    ELSE ParseStringFrom(text, i + 1, Append(acc, text[i]))

RECURSIVE ParseDigitsFrom(_, _, _)
ParseDigitsFrom(text, i, acc) ==
    IF i <= Len(text) /\ IndexIn(text[i], DigitChars) > 0
    THEN ParseDigitsFrom(text, i + 1, acc * 10 + (IndexIn(text[i], DigitChars) - 1))
    ELSE [val |-> acc, pos |-> i]

ParseScalar(text, i) ==
    IF i > Len(text) THEN [val |-> JNull, pos |-> 0]
    ELSE IF text[i] = "\""
         THEN LET s == ParseStringFrom(text, i + 1, <<>>)
              IN  [val |-> JStr(s.val), pos |-> s.pos]
    ELSE IF IndexIn(text[i], DigitChars) > 0
         THEN LET n == ParseDigitsFrom(text, i, 0)
              IN  [val |-> JNum(n.val), pos |-> n.pos]
    ELSE IF i + 3 <= Len(text) /\ SubSeq(text, i, i + 3) = <<"n","u","l","l">>
         THEN [val |-> JNull, pos |-> i + 4]
    ELSE [val |-> JNull, pos |-> 0]

RECURSIVE ParseMembers(_, _, _)
\* the members of an object from position i, where a key starts
ParseMembers(text, i, acc) ==
    IF i > Len(text) \/ text[i] # "\"" THEN [val |-> acc, pos |-> 0]
    ELSE LET k == ParseStringFrom(text, i + 1, <<>>)
         IN  IF k.pos = 0 \/ k.pos > Len(text) \/ text[k.pos] # ":"
             THEN [val |-> acc, pos |-> 0]
             ELSE LET x == ParseScalar(text, k.pos + 1)
                      more == (Str(k.val) :> x.val) @@ acc
                  IN  IF x.pos = 0 \/ x.pos > Len(text) THEN [val |-> acc, pos |-> 0]
                      ELSE IF text[x.pos] = "," THEN ParseMembers(text, x.pos + 1, more)
                      ELSE IF text[x.pos] = "}" THEN [val |-> more, pos |-> x.pos + 1]
                      ELSE [val |-> acc, pos |-> 0]

\* JSON.parse(text); JNull stands for a SyntaxError
JSONparse(text) ==
    IF Len(text) < 2 \/ text[1] # "{" THEN JNull
    ELSE IF text[2] = "}" THEN (IF Len(text) = 2 THEN JObj(<<>>) ELSE JNull)
    ELSE LET m == ParseMembers(text, 2, <<>>)
         IN  IF m.pos = Len(text) + 1 THEN JObj(m.val) ELSE JNull


----------------------------------------------------------------------------
(* The host: inputs, environment, context, clock, faults, API responses.   *)

MaxCount == 42

\* the names of the inputs read at index.js:115-118
WhoName == <<"w","h","o","-","t","o","-","g","r","e","e","t">>
TimeName == <<"i","n","c","l","u","d","e","-","t","i","m","e">>
PrefixName == <<"m","e","s","s","a","g","e","-","p","r","e","f","i","x">>
TokenName == <<"g","i","t","h","u","b","-","t","o","k","e","n">>
InputNames == {WhoName, TimeName, PrefixName, TokenName}
\* a name with a letter whose upper case is two letters
StrasseName == <<"s","t","r","a",SharpS,"e">>

\* the environment variable that holds an input (index.js:8-11)
EnvVarOf(name) ==
    CASE name = WhoName -> "INPUT_WHO_TO_GREET"
      [] name = TimeName -> "INPUT_INCLUDE_TIME"
      [] name = PrefixName -> "INPUT_MESSAGE_PREFIX"
      [] name = TokenName -> "INPUT_GITHUB_TOKEN"
      [] name = StrasseName -> "INPUT_STRASSE"

TokenA == <<"g","h","p","_","A">>
TokenB == <<"g","h","p","_","B">>

\* what core.getInput(name) can return in a run
StoreValues(name) ==
    CASE name = WhoName -> {<<>>, <<"G","i","t","H","u","b">>}
      [] name = TimeName -> {<<>>, <<"t","r","u","e">>, <<"Y","e","s">>}
      [] name = PrefixName -> {<<>>, <<"H","i">>}
      [] name = TokenName -> {<<>>, TokenA}

\* what the input's environment variable can hold in a run
EnvValues(name) ==
    CASE name = WhoName -> {<<>>, <<"D","e","v">>}
      [] name = TimeName -> {<<>>, <<"1">>, <<"n","o">>, <<" ","t","r","u","e">>}
      [] name = PrefixName -> {<<>>, <<"H","e","y">>}
      [] name = TokenName -> {<<>>, TokenA}

\* process.env with the input's variable set to value (unset when empty)
EnvWith(name, value) ==
    IF value = <<>> THEN <<>> ELSE (EnvVarOf(name) :> value)

\* github.context.repo
Contexts == [owner : {"", "test-owner"}, repo : {"", "test-repo"}]

\* new Date().toISOString() at the time of the call
ClockValues == {"2023-01-01T12:00:00.000Z", "2023-01-01T12:00:00.010Z"}

\* the messages of the errors host calls throw (index.test.js:159, 224)
ErrorMessages == {"Test error", "API Error"}

\* the data of a response of octokit.rest.repos.get
RepoData(stars, issues, language) ==
    [full_name |-> JStr(<<"o","/","r">>), stargazers_count |-> stars,
     forks_count |-> JNum(7), open_issues_count |-> issues, language |-> language,
     size |-> JNum(1024), created_at |-> JStr(<<"2","0","2","3","-","0","1">>),
     updated_at |-> JStr(<<"2","0","2","3","-","1","2">>)]

RepoDatas ==
    { RepoData(JNum(MaxCount), JNum(3), JStr(<<"J","S","\t","\"","x","\"","\\">>)),
      RepoData(JNum(0), JNum(0), JNull),
      RepoData(JNull, JNum(3), JStr(<<>>)) }

\* a host call: the function, its arguments, and whether it threw
Call(fn, a, b) == [fn |-> fn, a |-> a, b |-> b]
NoCall == Call("none", "", "")
Done(c, threw) == [fn |-> c.fn, a |-> c.a, b |-> c.b, threw |-> threw]

\* the calls that write text for a reader: log lines, the failure, the summary
IsLog(c) ==
    c.fn \in {"info", "warning", "setFailed", "summary.addHeading", "summary.addTable",
              "summary.write"}

NoProbe == [fn |-> "none", name |-> <<>>, stored |-> <<>>, env |-> <<>>,
            result |-> [t |-> "none", v |-> 0]]

Init ==
    /\ pc = "L115"
    /\ ctx \in Contexts
    /\ resolved = <<>>
    /\ whoToGreet = <<>>
    /\ includeTime = FALSE
    /\ messagePrefix = <<>>
    /\ githubToken = <<>>
    /\ greeting = ""
    /\ currentTime = JNull
    /\ repoStats = JNull
    /\ summaryTable = <<>>
    /\ fallbackRow = 0
    /\ awaited = JNull
    /\ calls = <<>>
    /\ raised = <<>>
    /\ err = ""
    /\ twinToken = <<>>
    /\ twinLines = <<>>
    /\ probe = NoProbe

locals == <<whoToGreet, includeTime, messagePrefix, githubToken, greeting,
            currentTime, repoStats, summaryTable, fallbackRow, awaited>>

\* the call c returns normally; the second run makes the call t
Returns(c, t, next) ==
    /\ calls' = Append(calls, Done(c, FALSE))
    /\ twinLines' = IF IsLog(t) THEN Append(twinLines, Done(t, FALSE)) ELSE twinLines
    /\ pc' = next
    /\ UNCHANGED <<raised, err>>

\* the call c throws an Error with message m inside the try of index.js:113
Throws(c, t, m) ==
    /\ calls' = Append(calls, Done(c, TRUE))
    /\ twinLines' = IF IsLog(t) THEN Append(twinLines, Done(t, TRUE)) ELSE twinLines
    /\ raised' = Append(raised, [at |-> pc, by |-> c.fn, message |-> m])
    /\ err' = m
    /\ pc' = "catch"

\* a host call that either returns or throws
HostCall(c, t, next) ==
    \/ Returns(c, t, next)
    \/ \E m \in ErrorMessages : Throws(c, t, m)


----------------------------------------------------------------------------
(* run(), index.js:112-197: resolving the inputs.                          *)

World == <<"W","o","r","l","d">>
Hello == <<"H","e","l","l","o">>

\* value || fallback (index.js:115, 117): '' is falsy
OrDefault(value, fallback) == IF value = <<>> THEN fallback ELSE value

\* a string as a JavaScript value that is handed on as it is
Text(s) == [t |-> "text", v |-> s]

\* the token of the second run: another non-empty token, or none
OtherToken(token) ==
    IF token = <<>> THEN <<>> ELSE IF token = TokenA THEN TokenB ELSE TokenA

GetInputCall(name) == Call("getInput", Str(name), "")

\* index.js:115
ResolveWhoToGreet ==
    /\ pc = "L115"
    /\ \/ \E stored \in StoreValues(WhoName), ev \in EnvValues(WhoName) :
            LET r == getInput(WhoName, stored, EnvWith(WhoName, ev))
            IN  /\ Returns(GetInputCall(WhoName), NoCall, "L116")
                /\ resolved' = (Str(WhoName) :> r) @@ resolved
                /\ whoToGreet' = OrDefault(r, World)
                /\ UNCHANGED <<includeTime, messagePrefix, githubToken>>
       \/ /\ \E m \in ErrorMessages : Throws(GetInputCall(WhoName), NoCall, m)
          /\ UNCHANGED <<resolved, whoToGreet, includeTime, messagePrefix, githubToken>>
    /\ UNCHANGED <<ctx, greeting, currentTime, repoStats, summaryTable, fallbackRow,
                   awaited, twinToken, probe>>

\* index.js:116
ResolveIncludeTime ==
    /\ pc = "L116"
    /\ \/ \E stored \in StoreValues(TimeName), ev \in EnvValues(TimeName) :
            LET r == getInput(TimeName, stored, EnvWith(TimeName, ev))
            IN  /\ Returns(GetInputCall(TimeName), NoCall, "L117")
                /\ resolved' = (Str(TimeName) :> r) @@ resolved
                /\ includeTime' = IsTrueInput(r)
                /\ UNCHANGED <<whoToGreet, messagePrefix, githubToken>>
       \/ /\ \E m \in ErrorMessages : Throws(GetInputCall(TimeName), NoCall, m)
          /\ UNCHANGED <<resolved, whoToGreet, includeTime, messagePrefix, githubToken>>
    /\ UNCHANGED <<ctx, greeting, currentTime, repoStats, summaryTable, fallbackRow,
                   awaited, twinToken, probe>>

\* index.js:117
ResolveMessagePrefix ==
    /\ pc = "L117"
    /\ \/ \E stored \in StoreValues(PrefixName), ev \in EnvValues(PrefixName) :
            LET r == getInput(PrefixName, stored, EnvWith(PrefixName, ev))
            IN  /\ Returns(GetInputCall(PrefixName), NoCall, "L118")
                /\ resolved' = (Str(PrefixName) :> r) @@ resolved
                /\ messagePrefix' = OrDefault(r, Hello)
                /\ UNCHANGED <<whoToGreet, includeTime, githubToken>>
       \/ /\ \E m \in ErrorMessages : Throws(GetInputCall(PrefixName), NoCall, m)
          /\ UNCHANGED <<resolved, whoToGreet, includeTime, messagePrefix, githubToken>>
    /\ UNCHANGED <<ctx, greeting, currentTime, repoStats, summaryTable, fallbackRow,
                   awaited, twinToken, probe>>

\* index.js:118
ResolveGithubToken ==
    /\ pc = "L118"
    /\ \/ \E stored \in StoreValues(TokenName), ev \in EnvValues(TokenName) :
            LET r == getInput(TokenName, stored, EnvWith(TokenName, ev))
            IN  /\ Returns(GetInputCall(TokenName), NoCall, "L120")
                /\ resolved' = (Str(TokenName) :> r) @@ resolved
                /\ githubToken' = r
                /\ twinToken' = OtherToken(r)
                /\ UNCHANGED <<whoToGreet, includeTime, messagePrefix>>
       \/ /\ \E m \in ErrorMessages : Throws(GetInputCall(TokenName), NoCall, m)
          /\ UNCHANGED <<resolved, whoToGreet, includeTime, messagePrefix, githubToken,
                         twinToken>>
    /\ UNCHANGED <<ctx, greeting, currentTime, repoStats, summaryTable, fallbackRow, awaited, probe>>

----------------------------------------------------------------------------
(* run(): logging the inputs, the greeting, the time.                      *)

Info(text) == Call("info", text, "")

\* a step that makes one host call and changes nothing else
Step(at, c, t, next) ==
    /\ pc = at
    /\ HostCall(c, t, next)
    /\ UNCHANGED <<ctx, resolved, locals, twinToken, probe>>

\* a token line that shows the token
TokenLineMutValue(token) == "GitHub token provided: " \o Str(token)
\* index.js:124
TokenLine(token) ==
    "GitHub token provided: " \o (IF token # <<>> THEN "Yes" ELSE "No")

\* index.js:120
LogStarting ==
    Step("L120", Info("Starting Hello World Action..."),
         Info("Starting Hello World Action..."), "L121")

\* index.js:121
LogWhoToGreet ==
    Step("L121", Info("Who to greet: " \o Str(whoToGreet)),
         Info("Who to greet: " \o Str(whoToGreet)), "L122")

\* index.js:122
LogMessagePrefix ==
    Step("L122", Info("Message prefix: " \o Str(messagePrefix)),
         Info("Message prefix: " \o Str(messagePrefix)), "L123")

\* index.js:123
LogIncludeTime ==
    Step("L123", Info("Include time: " \o (IF includeTime THEN "true" ELSE "false")),
         Info("Include time: " \o (IF includeTime THEN "true" ELSE "false")), "L124")

\* index.js:124
LogTokenProvided ==
    Step("L124", Info(TokenLine(githubToken)), Info(TokenLine(twinToken)), "L127")

\* index.js:127-130
LogGreeting ==
    /\ pc = "L127"
    /\ greeting' = createGreeting(messagePrefix, whoToGreet)
    /\ HostCall(Info("Generated greeting: " \o greeting'),
                Info("Generated greeting: " \o greeting'), "L133")
    /\ UNCHANGED <<ctx, resolved, whoToGreet, includeTime, messagePrefix, githubToken,
                   currentTime, repoStats, summaryTable, fallbackRow, awaited, twinToken, probe>>

\* a publication whose exception is dropped, the run going on
PublishMessageMutSwallows ==
    /\ pc = "L133"
    /\ \/ Returns(Call("setOutput", "message", greeting), NoCall, "L136")
       \/ /\ calls' = Append(calls, Done(Call("setOutput", "message", greeting), TRUE))
          /\ pc' = "L136"
          /\ UNCHANGED <<twinLines, raised, err>>
    /\ UNCHANGED <<ctx, resolved, locals, twinToken, probe>>

\* index.js:133
PublishMessage ==
    Step("L133", Call("setOutput", "message", greeting), NoCall, "L136")

\* index.js:136-139
TakeTime ==
    /\ pc = "L136"
    /\ IF includeTime
       THEN \E now \in ClockValues :
              /\ currentTime' = Text(now)
              /\ HostCall(Info("Current time: " \o now), Info("Current time: " \o now),
                          "L140")
       ELSE /\ pc' = "L145"
            /\ UNCHANGED <<currentTime, calls, twinLines, raised, err>>
    /\ UNCHANGED <<ctx, resolved, whoToGreet, includeTime, messagePrefix, githubToken,
                   greeting, repoStats, summaryTable, fallbackRow, awaited, twinToken, probe>>

\* index.js:140
PublishTime ==
    Step("L140", Call("setOutput", "time", currentTime.v), NoCall, "L145")


----------------------------------------------------------------------------
(* run() and getRepoStats(): the repository statistics.                    *)

\* a guard that looks at the token alone
FetchGuardMutTokenOnly(token, owner, repo) == token # <<>>
\* index.js:145
FetchGuard(token, owner, repo) == token # <<>> /\ owner # "" /\ repo # ""

\* what the second run does at a step of the branch of index.js:145-158
TwinCall(c) == IF FetchGuard(twinToken, ctx.owner, ctx.repo) THEN c ELSE NoCall

\* index.js:145-146
CheckFetch ==
    /\ pc = "L145"
    /\ IF FetchGuard(githubToken, ctx.owner, ctx.repo)
       THEN HostCall(Info("Fetching repository statistics..."),
                     TwinCall(Info("Fetching repository statistics...")), "L86")
       ELSE /\ pc' = "L161"
            /\ twinLines' =
                 IF IsLog(TwinCall(Info("Fetching repository statistics...")))
                 THEN Append(twinLines, Done(Info("Fetching repository statistics..."), FALSE))
                 ELSE twinLines
            /\ UNCHANGED <<calls, raised, err>>
    /\ UNCHANGED <<ctx, resolved, locals, twinToken, probe>>

\* the handler of index.js:103 takes over: the exception does not leave getRepoStats
Caught(c, m) ==
    /\ calls' = Append(calls, Done(c, TRUE))
    /\ raised' = Append(raised, [at |-> pc, by |-> c.fn, message |-> m])
    /\ err' = m
    /\ pc' = "L104"
    /\ UNCHANGED twinLines

\* index.js:86 : new Octokit({ auth: token })
NewOctokit ==
    /\ pc = "L86"
    /\ \/ Returns(Call("Octokit", Str(githubToken), ""), NoCall, "L88")
       \/ \E m \in ErrorMessages : Caught(Call("Octokit", Str(githubToken), ""), m)
    /\ UNCHANGED <<ctx, resolved, locals, twinToken, probe>>

\* index.js:93-102
StatsOf(data) ==
    JObj([name |-> data.full_name, stars |-> data.stargazers_count,
          forks |-> data.forks_count, issues |-> data.open_issues_count,
          language |-> data.language, size |-> data.size,
          created |-> data.created_at, updated |-> data.updated_at])

\* index.js:88 : the request is sent, and getRepoStats waits for its answer
ReposGet ==
    /\ pc = "L88"
    /\ Returns(Call("repos.get", ctx.owner, ctx.repo), NoCall, "L88_await")
    /\ UNCHANGED <<ctx, resolved, locals, twinToken, probe>>

\* the last call, marked as one whose promise rejected
Rejected(log) == [log EXCEPT ![Len(log)].threw = TRUE]

\* index.js:88-102 : in a later turn the request resolves, and getRepoStats
\* returns the record to the await of index.js:147; or it is rejected, and the
\* handler of index.js:103 takes over
ReposSettles ==
    /\ pc = "L88_await"
    /\ \/ \E data \in RepoDatas :
            /\ awaited' = StatsOf(data)
            /\ pc' = "L147"
            /\ UNCHANGED <<calls, raised, err>>
       \/ \E m \in ErrorMessages :
            /\ calls' = Rejected(calls)
            /\ raised' = Append(raised, [at |-> "L88", by |-> "repos.get", message |-> m])
            /\ err' = m
            /\ pc' = "L104"
            /\ UNCHANGED awaited
    /\ UNCHANGED <<ctx, resolved, whoToGreet, includeTime, messagePrefix, githubToken,
                   greeting, currentTime, repoStats, summaryTable, fallbackRow,
                   twinToken, twinLines, probe>>

\* a warning that leaves out the failure's message
WarningTextMutNoMessage(m) == "Failed to fetch repository stats"
\* index.js:104
WarningText(m) == "Failed to fetch repository stats: " \o m

\* a failure that is answered with a record of defaults
FailureResultMutDefaults == StatsOf(RepoData(JNum(0), JNum(0), JNull))
\* index.js:105 : what getRepoStats returns after a failure
FailureResult == JNull

\* index.js:104-105 : the warning, and null returned to the await of index.js:147
WarnFetchFailed ==
    /\ pc = "L104"
    /\ Returns(Call("warning", WarningText(err), ""),
               TwinCall(Call("warning", WarningText(err), "")), "L147")
    /\ awaited' = FailureResult
    /\ UNCHANGED <<ctx, resolved, whoToGreet, includeTime, messagePrefix, githubToken,
                   greeting, currentTime, repoStats, summaryTable, fallbackRow,
                   twinToken, probe>>

\* index.js:147 : in a later turn run() goes on with what getRepoStats returned
AssignStats ==
    /\ pc = "L147"
    /\ repoStats' = awaited
    /\ awaited' = JNull
    /\ pc' = "L149"
    /\ UNCHANGED <<ctx, resolved, whoToGreet, includeTime, messagePrefix, githubToken,
                   greeting, currentTime, summaryTable, fallbackRow, calls, raised, err,
                   twinToken, twinLines, probe>>

\* index.js:149 : if (repoStats)
CheckStats ==
    /\ pc = "L149"
    /\ pc' = IF repoStats.t # "null" THEN "L150" ELSE "L161"
    /\ UNCHANGED <<ctx, resolved, locals, calls, raised, err, twinToken, twinLines, probe>>

\* the labels of index.js:151-154 and 174-177
StarsLabel == Pic("star") \o " Stars"
ForksLabel == Pic("fork and knife") \o " Forks"
IssuesLabel == Pic("bug") \o " Open Issues"
LanguageLabel == Pic("memo") \o " Language"

\* the lines of index.js:150-154
StatsLine(at) ==
    CASE at = "L150" -> "Repository: " \o Coerce(repoStats.v.name)
      [] at = "L151" -> StarsLabel \o ": " \o Coerce(repoStats.v.stars)
      [] at = "L152" -> ForksLabel \o ": " \o Coerce(repoStats.v.forks)
      [] at = "L153" -> IssuesLabel \o ": " \o Coerce(repoStats.v.issues)
      [] at = "L154" -> LanguageLabel \o ": " \o OrUnknown(repoStats.v.language)

AfterStatsLine(at) ==
    CASE at = "L150" -> "L151"
      [] at = "L151" -> "L152"
      [] at = "L152" -> "L153"
      [] at = "L153" -> "L154"
      [] at = "L154" -> "L156"

\* index.js:150-154
LogRepoStats ==
    /\ pc \in {"L150", "L151", "L152", "L153", "L154"}
    /\ HostCall(Info(StatsLine(pc)), TwinCall(Info(StatsLine(pc))), AfterStatsLine(pc))
    /\ UNCHANGED <<ctx, resolved, locals, twinToken, probe>>

\* index.js:156
PublishRepoStats ==
    Step("L156", Call("setOutput", "repo-stats", JSONstringify(repoStats)), NoCall, "L161")

\* index.js:161
RegisterSecret ==
    Step("L161", Call("setSecret", "my-secret-value", ""), NoCall, "L164")


----------------------------------------------------------------------------
(* run(): the summary, the completion message, the failure report.         *)

\* index.js:165-168
HeaderRow == <<[data |-> "Field", header |-> TRUE], [data |-> "Value", header |-> TRUE]>>

\* a JavaScript value as a cell of the table
Cell(x) == IF x.t = "str" THEN Text(Str(x.v)) ELSE x

\* `${value}` of a cell (index.js:189)
CellText(c) == IF c.t = "text" THEN c.v ELSE Coerce(c)

\* value.toString() is a TypeError on null (index.js:174-176)
CanToString(x) == x.t # "null"
TypeErrorMessage == "Cannot read properties of null (reading 'toString')"

\* index.js:170
TimeRows(flag, time) == IF flag THEN <<<<"Timestamp", time>>>> ELSE <<>>

\* index.js:171-179
StatsRows(stats) ==
    IF stats.t = "obj"
    THEN << <<"Repository", Cell(stats.v.name)>>,
            <<StarsLabel, Text(Coerce(stats.v.stars))>>,
            <<ForksLabel, Text(Coerce(stats.v.forks))>>,
            <<IssuesLabel, Text(Coerce(stats.v.issues))>>,
            <<LanguageLabel, Cell(OrUnknownValue(stats.v.language))>> >>
    ELSE <<>>

\* index.js:164-180
BuildSummaryTable ==
    /\ pc = "L164"
    /\ IF repoStats.t = "obj" /\ \E k \in {"stars", "forks", "issues"} :
                                     ~CanToString(repoStats.v[k])
       THEN /\ raised' = Append(raised, [at |-> pc, by |-> "toString",
                                         message |-> TypeErrorMessage])
            /\ err' = TypeErrorMessage
            /\ pc' = "catch"
            /\ UNCHANGED summaryTable
       ELSE /\ summaryTable' = <<HeaderRow, <<"Greeting", Text(greeting)>>>>
                                 \o TimeRows(includeTime, currentTime)
                                 \o StatsRows(repoStats)
            /\ pc' = "L184"
            /\ UNCHANGED <<raised, err>>
    /\ UNCHANGED <<ctx, resolved, whoToGreet, includeTime, messagePrefix, githubToken,
                   greeting, currentTime, repoStats, fallbackRow, calls, awaited, twinToken,
                   twinLines, probe>>

\* index.js:184 : the three calls of the chain core.summary.addHeading(...)
\* .addTable(...).write()
SummaryHeading == Pic("direct hit") \o " Hello World Action Results"
AddHeadingCall == Call("summary.addHeading", SummaryHeading, "")
AddTableCall == Call("summary.addTable", "", summaryTable)
WriteCall == Call("summary.write", "", "")

\* a call of the chain throws, or the write is rejected, into the catch of
\* index.js:185: the fallback starts at the first data row
IntoFallback(by, m) ==
    /\ raised' = Append(raised, [at |-> pc, by |-> by, message |-> m])
    /\ pc' = "L187"
    /\ fallbackRow' = 2
    /\ UNCHANGED err

\* a call of the chain that returns or throws
ChainCall(c, next) ==
    /\ \/ /\ Returns(c, c, next)
          /\ UNCHANGED fallbackRow
       \/ \E m \in ErrorMessages :
            /\ calls' = Append(calls, Done(c, TRUE))
            /\ twinLines' = Append(twinLines, Done(c, TRUE))
            /\ IntoFallback(c.fn, m)
    /\ UNCHANGED <<ctx, resolved, whoToGreet, includeTime, messagePrefix, githubToken,
                   greeting, currentTime, repoStats, summaryTable, awaited, twinToken,
                   probe>>

\* index.js:184 : core.summary.addHeading(...)
AddHeading == pc = "L184" /\ ChainCall(AddHeadingCall, "L184_addTable")

\* index.js:184 : .addTable(summaryTable)
AddTable == pc = "L184_addTable" /\ ChainCall(AddTableCall, "L184_write")

\* index.js:184 : .write(), whose promise run() waits on
WriteSummary == pc = "L184_write" /\ ChainCall(WriteCall, "L184_await")

\* index.js:184-185 : in a later turn the write resolves, or it is rejected
\* into the catch
SinkSettles ==
    /\ pc = "L184_await"
    /\ \/ /\ pc' = "L193"
          /\ UNCHANGED <<calls, twinLines, raised, err, fallbackRow>>
       \/ \E m \in ErrorMessages :
            /\ calls' = Rejected(calls)
            /\ twinLines' = Rejected(twinLines)
            /\ IntoFallback("summary.write", m)
    /\ UNCHANGED <<ctx, resolved, whoToGreet, includeTime, messagePrefix, githubToken,
                   greeting, currentTime, repoStats, summaryTable, awaited, twinToken,
                   probe>>

\* index.js:187
FallbackHeading ==
    Step("L187", Info(Pic("bar chart") \o " Hello World Action Results:"),
         Info(Pic("bar chart") \o " Hello World Action Results:"),
         IF fallbackRow <= Len(summaryTable) THEN "L189" ELSE "L193")

\* a row line without its value
RowLineMutFieldOnly(row) == "   " \o row[1]
\* index.js:189
RowLine(row) == "   " \o row[1] \o ": " \o CellText(row[2])

\* index.js:188-190 : one turn of the loop over summaryTable.slice(1)
FallbackRow ==
    /\ pc = "L189"
    /\ HostCall(Info(RowLine(summaryTable[fallbackRow])),
                Info(RowLine(summaryTable[fallbackRow])),
                IF fallbackRow < Len(summaryTable) THEN "L189" ELSE "L193")
    /\ fallbackRow' = fallbackRow + 1
    /\ UNCHANGED <<ctx, resolved, whoToGreet, includeTime, messagePrefix, githubToken,
                   greeting, currentTime, repoStats, summaryTable, awaited, twinToken, probe>>

CompletedText == Pic("check mark") \o " Action completed successfully!"

\* index.js:193
LogCompleted == Step("L193", Info(CompletedText), Info(CompletedText), "done")

\* a failure report that is the bare message
FailedTextMutNoPrefix(m) == m
\* index.js:195
FailedText(m) == "Action failed with error: " \o m

\* a handler after which the run goes on to its last statement
CatchMutFallsThrough ==
    /\ pc = "catch"
    /\ Returns(Call("setFailed", FailedText(err), ""),
               Call("setFailed", FailedText(err), ""), "L193")
    /\ UNCHANGED <<ctx, resolved, locals, twinToken, probe>>

\* index.js:194-196
Catch ==
    /\ pc = "catch"
    /\ Returns(Call("setFailed", FailedText(err), ""),
               Call("setFailed", FailedText(err), ""), "done")
    /\ UNCHANGED <<ctx, resolved, locals, twinToken, probe>>

Next ==
    \/ ResolveWhoToGreet
    \/ ResolveIncludeTime
    \/ ResolveMessagePrefix
    \/ ResolveGithubToken
    \/ LogStarting
    \/ LogWhoToGreet
    \/ LogMessagePrefix
    \/ LogIncludeTime
    \/ LogTokenProvided
    \/ LogGreeting
    \/ PublishMessage
    \/ TakeTime
    \/ PublishTime
    \/ CheckFetch
    \/ NewOctokit
    \/ ReposGet
    \/ ReposSettles
    \/ WarnFetchFailed
    \/ AssignStats
    \/ CheckStats
    \/ LogRepoStats
    \/ PublishRepoStats
    \/ RegisterSecret
    \/ BuildSummaryTable
    \/ AddHeading
    \/ AddTable
    \/ WriteSummary
    \/ SinkSettles
    \/ FallbackHeading
    \/ FallbackRow
    \/ LogCompleted
    \/ Catch

Spec == Init /\ [][Next]_vars


FairSpec == Spec /\ WF_vars(Next)

----------------------------------------------------------------------------
(* The Input Resolver on its own: one call of getInput or getBooleanInput  *)
(* against a structured store and an environment of the host.              *)

\* values the store or a variable of the environment can hold
ProbeValues == {<<"t","r","u","e">>, <<"T","R","U","E">>, <<" ","1">>, <<"y","e","s">>,
                <<"o","f","f">>, <<"T","R","U",EAcute>>, <<"Y","E",LongS>>, <<KelvinSign>>}

\* the names getInput is probed with
ProbeNames == InputNames \cup {StrasseName}

\* an upper-casing of the letters a-z alone
AsciiUpper(s) ==
    [i \in 1..Len(s) |-> IF IndexIn(s[i], Lower) > 0 THEN Upper[IndexIn(s[i], Lower)] ELSE s[i]]

\* process.env: the input's variable, and variables whose names are near it
ProbeEnvs(name) ==
    { right @@ lower @@ dashed :
        right \in {<<>>} \cup {EnvVarOf(name) :> v : v \in ProbeValues \cup {<<>>}},
        lower \in {<<>>, Str(InputPrefix \o DashToUnderscore(name)) :> <<"l","o","w">>},
        dashed \in {<<>>, Str(InputPrefix \o AsciiUpper(name)) :> <<"d","a","s","h">>} }

\* index.js:36-47
ProbeGetInput ==
    /\ probe = NoProbe
    /\ \E name \in ProbeNames, stored \in ProbeValues \cup {<<>>} :
       \E env \in ProbeEnvs(name) :
         probe' = [fn |-> "getInput", name |-> name, stored |-> stored, env |-> env,
                   result |-> Text(Str(getInput(name, stored, env)))]
    /\ UNCHANGED <<pc, ctx, resolved, locals, calls, raised, err, twinToken, twinLines>>

\* index.js:54-57
ProbeGetBooleanInput ==
    /\ probe = NoProbe
    /\ \E name \in ProbeNames, stored \in ProbeValues \cup {<<>>} :
       \E env \in ProbeEnvs(name) :
         probe' = [fn |-> "getBooleanInput", name |-> name, stored |-> stored, env |-> env,
                   result |-> [t |-> "bool", v |-> IsTrueInput(getInput(name, stored, env))]]
    /\ UNCHANGED <<pc, ctx, resolved, locals, calls, raised, err, twinToken, twinLines>>

InputNext == ProbeGetInput \/ ProbeGetBooleanInput

InputSpec == Init /\ [][InputNext]_vars


----------------------------------------------------------------------------
(* Reading the trace of a run.                                             *)

\* the positions in `calls` of the calls of fn with first argument a
CallsOf(fn, a) == {i \in 1..Len(calls) : calls[i].fn = fn /\ calls[i].a = a}
\* the positions of the calls of fn
CallsTo(fn) == {i \in 1..Len(calls) : calls[i].fn = fn}
\* the positions of the calls of fn that returned normally
Returned(fn, a) == {i \in CallsOf(fn, a) : ~calls[i].threw}

\* the exceptions that were raised at one of the statements in `at`
RaisedAt(at) == {j \in 1..Len(raised) : raised[j].at \in at}

\* the statements of getRepoStats that read the remote API
FetchSteps == {"L86", "L88"}
\* the statement that renders the summary
SummaryStep == {"L184", "L184_addTable", "L184_write", "L184_await"}
\* the statements of run() up to and including setOutput('message')
StepsToMessage == {"L115", "L116", "L117", "L118", "L120", "L121", "L122", "L123",
                   "L124", "L127", "L133"}
\* the statements of run() before setOutput('time')
StepsBeforeTime == StepsToMessage \cup {"L136"}

Terminated == pc = "done"
Succeeded == Returned("info", CompletedText) # {}
Failed == CallsTo("setFailed") # {}

\* the value getInput returned for an input, '' while it has not been read
Resolved(name) == IF Str(name) \in DOMAIN resolved THEN resolved[Str(name)] ELSE <<>>

\* the exceptions that reach the catch of index.js:194
Propagated == {j \in 1..Len(raised) : raised[j].at \notin (FetchSteps \cup SummaryStep)}

----------------------------------------------------------------------------
(* C1.                                                                     *)

\* C1 as stated, for the runs in which one step raises: whenever a step of
\* run() -- summary rendering included -- raised an exception with message m,
\* the terminated run has called setFailed with "Action failed with error: "
\* followed by m.
C1_AsStated ==
    (Terminated /\ Len(raised) = 1) =>
        \A j \in 1..Len(raised) :
            raised[j].at \notin FetchSteps
                => \E i \in CallsTo("setFailed") :
                       calls[i].a = "Action failed with error: " \o raised[j].message

\* C1, amended: an exception raised by input resolution, an info log, a
\* setOutput, setSecret or table construction ends the run with exactly one
\* setFailed call, whose argument is "Action failed with error: " followed by
\* the exception's message, and with no completion message; an exception of
\* summary rendering alone does not make the run call setFailed.
C1_FailureReported ==
    /\ Cardinality(Propagated) <= 1
    /\ Cardinality(CallsTo("setFailed")) <= 1
    /\ Terminated =>
         /\ \A j \in Propagated :
              /\ Cardinality(CallsTo("setFailed")) = 1
              /\ \A i \in CallsTo("setFailed") :
                   /\ calls[i].a = "Action failed with error: " \o raised[j].message
                   /\ ~calls[i].threw
                   /\ i = Len(calls)
              /\ ~Succeeded
         /\ Propagated = {} => ~Failed

\* a run whose setOutput threw "Test error" has reported it (index.test.js:157-165)
C1_Witness ==
    /\ Terminated
    /\ \E j \in Propagated : raised[j].by = "setOutput" /\ raised[j].message = "Test error"
    /\ \E i \in CallsTo("setFailed") : calls[i].a = "Action failed with error: Test error"

----------------------------------------------------------------------------
(* C2.                                                                     *)

\* C2: while the resolved github-token, the context owner or the context repo
\* is empty, getRepoStats has not been entered, no request has been sent and
\* no `repo-stats` output has been set.
C2_FetchOnlyWithIdentity ==
    (Resolved(TokenName) = <<>> \/ ctx.owner = "" \/ ctx.repo = "")
        => /\ CallsTo("Octokit") = {}
           /\ CallsTo("repos.get") = {}
           /\ CallsOf("setOutput", "repo-stats") = {}

\* a run with a token but no owner has completed without a request
C2_Witness ==
    /\ Terminated /\ Succeeded
    /\ Resolved(TokenName) # <<>> /\ ctx.owner = "" /\ ctx.repo # ""
    /\ CallsTo("repos.get") = {}


----------------------------------------------------------------------------
(* C3.                                                                     *)

\* the position in `calls` of the call of getRepoStats that failed, 0 if none
FailedFetchCall ==
    IF \E i \in 1..Len(calls) : calls[i].fn \in {"Octokit", "repos.get"} /\ calls[i].threw
    THEN CHOOSE i \in 1..Len(calls) :
             calls[i].fn \in {"Octokit", "repos.get"} /\ calls[i].threw
    ELSE 0

\* C3: when constructing the client or the request fails with message m,
\* getRepoStats hands no exception to run(); the next host call is the one
\* warning "Failed to fetch repository stats: " followed by m, no other
\* warning is ever emitted, and getRepoStats returns null to index.js:147.
C3_FetchFailureAbsorbed ==
    /\ Cardinality(RaisedAt(FetchSteps)) <= 1
    /\ CallsTo("warning") # {} => RaisedAt(FetchSteps) # {}
    /\ \A j \in RaisedAt(FetchSteps) :
         /\ pc = "catch" => j < Len(raised)
         /\ pc # "L104" =>
              /\ Cardinality(CallsTo("warning")) = 1
              /\ calls[FailedFetchCall + 1].fn = "warning"
              /\ calls[FailedFetchCall + 1].a
                   = "Failed to fetch repository stats: " \o raised[j].message
              /\ ~calls[FailedFetchCall + 1].threw
              /\ repoStats = JNull
              /\ pc = "L147" => awaited = JNull
              /\ Len(calls) = FailedFetchCall + 1 => pc \in {"L147", "L149", "L161"}

\* the request was rejected with "API Error" and getRepoStats has returned
\* (index.test.js:223-230)
C3_Witness ==
    /\ pc = "L149"
    /\ \E j \in RaisedAt({"L88"}) : raised[j].message = "API Error"
    /\ \E i \in CallsTo("warning") :
         calls[i].a = "Failed to fetch repository stats: API Error"

----------------------------------------------------------------------------
(* C4.                                                                     *)

\* what a run has written for a reader
Logged == SelectSeq(calls, IsLog)

\* C4: a run and a second run that differs from it only in the value of its
\* non-empty token (same host answers, same fetch result) hand the same
\* texts, in the same order, to info, warning, setFailed and the summary;
\* the token line of index.js:124, the ninth host call of a run that gets
\* that far, reads
\* "GitHub token provided: Yes" when the resolved token is non-empty and
\* "GitHub token provided: No" when it is empty.
C4_LogsIndependentOfToken ==
    /\ Logged = twinLines
    /\ (Len(calls) >= 9 /\ ~calls[8].threw) =>
         /\ calls[9].fn = "info"
         /\ calls[9].a = IF Resolved(TokenName) # <<>>
                         THEN "GitHub token provided: Yes"
                         ELSE "GitHub token provided: No"

\* two runs with different non-empty tokens have both fetched and completed
C4_Witness ==
    /\ Terminated /\ Succeeded
    /\ githubToken # <<>> /\ twinToken # <<>> /\ twinToken # githubToken
    /\ repoStats.t = "obj"
    /\ Len(twinLines) > 9

----------------------------------------------------------------------------
(* C5.                                                                     *)

\* the greeting the resolved inputs call for
ExpectedGreeting ==
    Str(IF Resolved(PrefixName) = <<>> THEN Hello ELSE Resolved(PrefixName))
        \o ", "
        \o Str(IF Resolved(WhoName) = <<>> THEN World ELSE Resolved(WhoName))
        \o "!"

\* the `message` output comes first among the outputs and carries the greeting
MessageOutputInOrder ==
    /\ Cardinality(CallsOf("setOutput", "message")) <= 1
    /\ \A i \in CallsOf("setOutput", "message") :
         /\ calls[i].b = ExpectedGreeting
         /\ \A k \in CallsTo("setOutput") : k >= i

\* C5 as stated, for the runs that resolved their four inputs: in every
\* terminated run in which no setOutput call threw, `message` has been
\* published exactly once, before any other output, with the greeting of the
\* resolved inputs.
C5_AsStated ==
    /\ MessageOutputInOrder
    /\ (/\ Terminated
        /\ DOMAIN resolved = {Str(n) : n \in InputNames}
        /\ \A i \in CallsTo("setOutput") : ~calls[i].threw)
         => Cardinality(Returned("setOutput", "message")) = 1

\* C5, amended: in every terminated run in which no statement up to and
\* including setOutput('message') threw (input resolution, the info logs
\* before it, the output call itself), `message` has been published exactly
\* once; in every run it is set at most once, before any `time` or
\* `repo-stats` output, and its value is P, S! for the resolved prefix P
\* ("Hello" when empty) and the resolved subject S ("World" when empty).
C5_MessagePublished ==
    /\ MessageOutputInOrder
    /\ (Terminated /\ RaisedAt(StepsToMessage) = {})
         => Cardinality(Returned("setOutput", "message")) = 1

\* a run with a custom prefix and the default subject has published
\* "Hi, World!" and gone on to publish the time and the statistics
C5_Witness ==
    /\ Terminated
    /\ Resolved(PrefixName) = <<"H","i">> /\ Resolved(WhoName) = <<>>
    /\ \E i \in Returned("setOutput", "message") : calls[i].b = "Hi, World!"
    /\ Returned("setOutput", "time") # {}
    /\ Returned("setOutput", "repo-stats") # {}


----------------------------------------------------------------------------
(* C6.                                                                     *)

\* the statements of run() before the call of getRepoStats
StepsBeforeFetch == StepsBeforeTime \cup {"L140", "L145"}
\* the info logs between the return of getRepoStats and setOutput('repo-stats')
StatsLogSteps == {"L150", "L151", "L152", "L153", "L154"}

\* the statements from the return of getRepoStats up to and including
\* setOutput('repo-stats')
StepsToRepoStats == StatsLogSteps \cup {"L156"}

\* no run constructs the client or sends the request more than once, and a
\* request names the context's owner and repo; a terminated run with a token,
\* an owner and a repo in which nothing threw before the fetch has entered
\* getRepoStats exactly once and, the client constructed, has sent exactly
\* one request
FetchedOnce ==
    /\ Cardinality(CallsTo("Octokit")) <= 1
    /\ Cardinality(CallsTo("repos.get")) <= 1
    /\ \A i \in CallsTo("repos.get") : calls[i].a = ctx.owner /\ calls[i].b = ctx.repo
    /\ (/\ Terminated
        /\ Resolved(TokenName) # <<>> /\ ctx.owner # "" /\ ctx.repo # ""
        /\ RaisedAt(StepsBeforeFetch) = {})
         => /\ Cardinality(CallsTo("Octokit")) = 1
            /\ (\A i \in CallsTo("Octokit") : ~calls[i].threw)
                 => Cardinality(CallsTo("repos.get")) = 1

\* `repo-stats` is set at most once, only with a record in hand, and its
\* value parses back to the record getRepoStats returned
RepoStatsValue ==
    /\ Cardinality(CallsOf("setOutput", "repo-stats")) <= 1
    /\ \A i \in CallsOf("setOutput", "repo-stats") :
         /\ repoStats.t = "obj"
         /\ JSONparse(calls[i].b) = repoStats

\* C6 as stated: the fetch is made once, never twice, with the context's
\* owner and repo, and every terminated run whose fetch returned a record has
\* published `repo-stats` exactly once, with a value that parses back to
\* that record.
C6_AsStated ==
    /\ FetchedOnce
    /\ RepoStatsValue
    /\ (Terminated /\ repoStats.t = "obj")
         => Cardinality(Returned("setOutput", "repo-stats")) = 1

\* C6, amended: the fetch is made once, never twice, with the context's owner
\* and repo; `repo-stats` is set at most once and its value parses back to
\* the record the fetch returned; a terminated run whose fetch returned a
\* record has called setOutput('repo-stats') exactly once when none of the
\* five info logs of index.js:150-154 threw, and has published it exactly
\* once when that call did not throw either.
C6_FetchOnceAndPublished ==
    /\ FetchedOnce
    /\ RepoStatsValue
    /\ (Terminated /\ repoStats.t = "obj" /\ RaisedAt(StatsLogSteps) = {})
         => Cardinality(CallsOf("setOutput", "repo-stats")) = 1
    /\ (Terminated /\ repoStats.t = "obj" /\ RaisedAt(StepsToRepoStats) = {})
         => Cardinality(Returned("setOutput", "repo-stats")) = 1
    /\ (Terminated /\ RaisedAt(StepsToRepoStats) # {})
         => Returned("setOutput", "repo-stats") = {}

\* a run has fetched a record whose language is null and published it
C6_Witness ==
    /\ Terminated /\ Succeeded
    /\ repoStats.t = "obj" /\ repoStats.v.language = JNull
    /\ \E i \in Returned("setOutput", "repo-stats") : JSONparse(calls[i].b) = repoStats

----------------------------------------------------------------------------
(* C7.                                                                     *)

FetchFailed == RaisedAt(FetchSteps) # {}

\* the table of the summary has a row with this label
HasRow(field) == \E r \in 2..Len(summaryTable) : summaryTable[r][1] = field
HasRepoRows ==
    \E f \in {"Repository", StarsLabel, ForksLabel, IssuesLabel, LanguageLabel} : HasRow(f)

\* the include-time input as resolved asks for the time
TimeRequested ==
    toLowerCase(Resolved(TimeName)) \in {<<"t","r","u","e">>, <<"1">>, <<"y","e","s">>}

\* C7 as stated: every terminated run whose fetch failed has succeeded, has
\* published `message` (and `time` when requested) and no `repo-stats`, and
\* its summary has no repository rows.
C7_AsStated ==
    (Terminated /\ FetchFailed) =>
        /\ Succeeded /\ ~Failed
        /\ Returned("setOutput", "message") # {}
        /\ TimeRequested => Returned("setOutput", "time") # {}
        /\ CallsOf("setOutput", "repo-stats") = {}
        /\ ~HasRepoRows

\* C7, amended: in every run whose fetch failed, no `repo-stats` output is
\* ever set and the summary table has no repository rows; and when no other
\* statement raises an exception that reaches the catch of run() (one of the
\* summary sink is absorbed by the fallback), the terminated run has logged
\* the completion message, has not called setFailed, and has published
\* `message` and, exactly when requested, `time`.
C7_FetchFailureRecovered ==
    (FetchFailed /\ pc # "L104") =>
        /\ CallsOf("setOutput", "repo-stats") = {}
        /\ ~HasRepoRows
        /\ \A i \in CallsTo("info") : calls[i].a # "Repository: o/r"
        /\ (Terminated /\ Propagated = {}) =>
             /\ Succeeded /\ ~Failed
             /\ Cardinality(Returned("setOutput", "message")) = 1
             /\ TimeRequested <=> Returned("setOutput", "time") # {}
             /\ Len(summaryTable) = IF TimeRequested THEN 3 ELSE 2

\* the client could not be constructed, and the run has completed with the time
C7_Witness ==
    /\ Terminated /\ Succeeded /\ ~Failed
    /\ RaisedAt({"L86"}) # {}
    /\ Returned("setOutput", "time") # {}
    /\ Len(summaryTable) = 3

----------------------------------------------------------------------------
(* C8.                                                                     *)

\* setOutput('time') is called only when requested, at most once, after
\* `message` has been published and before getRepoStats is entered
TimeOutputInOrder ==
    /\ CallsOf("setOutput", "time") # {} => TimeRequested
    /\ Cardinality(CallsOf("setOutput", "time")) <= 1
    /\ \A i \in CallsOf("setOutput", "time") :
         /\ \E k \in Returned("setOutput", "message") : k < i
         /\ \A k \in CallsTo("Octokit") \cup CallsTo("repos.get")
                       \cup CallsOf("info", "Fetching repository statistics...") : k > i
    /\ Terminated =>
         (CallsOf("setOutput", "time") # {}
            <=> (TimeRequested /\ RaisedAt(StepsBeforeTime) = {}))

\* C8 as stated: the above, and a terminated run's summary table has a
\* Timestamp row exactly when the run called setOutput('time').
C8_AsStated ==
    /\ TimeOutputInOrder
    /\ Terminated => (HasRow("Timestamp") <=> CallsOf("setOutput", "time") # {})

\* C8, amended: setOutput('time') is called if and only if the resolved
\* include-time, lower-cased and not trimmed, is "true", "1" or "yes" and no
\* earlier statement threw; it is called at most once, after `message` and
\* before any fetch; and in every run that builds the summary table, the
\* table has a Timestamp row -- one, holding the published time -- exactly
\* when `time` was published.
C8_TimeOnlyWhenRequested ==
    /\ TimeOutputInOrder
    /\ summaryTable # <<>> =>
         /\ HasRow("Timestamp") <=> Returned("setOutput", "time") # {}
         /\ \A i \in Returned("setOutput", "time") :
              /\ summaryTable[3] = <<"Timestamp", Text(calls[i].b)>>
              /\ Cardinality({r \in 2..Len(summaryTable) :
                                 summaryTable[r][1] = "Timestamp"}) = 1

\* include-time resolved to "Yes": the time is published and in the table
C8_Witness ==
    /\ Terminated /\ Succeeded
    /\ Resolved(TimeName) = <<"Y","e","s">>
    /\ Returned("setOutput", "time") # {}
    /\ HasRow("Timestamp")

----------------------------------------------------------------------------
(* C9.                                                                     *)

\* the value of the input's own variable in the probed environment, '' if unset
OwnVariable ==
    IF EnvVarOf(probe.name) \in DOMAIN probe.env
    THEN probe.env[EnvVarOf(probe.name)]
    ELSE <<>>

\* C9: getInput returns a string for every store value and environment: the
\* store's value when that is non-empty, otherwise the value of
\* INPUT_<NAME, upper-cased, dashes as underscores> when that is non-empty,
\* otherwise the empty string.
C9_TwoSourceLookup ==
    probe.fn = "getInput" =>
        /\ probe.result.t = "text"
        /\ probe.stored # <<>> => probe.result.v = Str(probe.stored)
        /\ (probe.stored = <<>> /\ OwnVariable # <<>>) => probe.result.v = Str(OwnVariable)
        /\ (probe.stored = <<>> /\ OwnVariable = <<>>) => probe.result.v = ""

\* the store is empty and the variable is set, among variables named alike
C9_Witness ==
    /\ probe.fn = "getInput"
    /\ probe.name = WhoName
    /\ probe.stored = <<>>
    /\ DOMAIN probe.env = {"INPUT_WHO_TO_GREET", "INPUT_who_to_greet", "INPUT_WHO-TO-GREET"}
    /\ probe.result.v = "TRUE"

----------------------------------------------------------------------------
(* C10.                                                                    *)

\* a terminated run is in exactly one of the two outcomes
ExclusiveOutcome ==
    /\ Failed => Propagated # {}
    /\ Terminated =>
         \/ Succeeded /\ ~Failed
         \/ Cardinality(CallsTo("setFailed")) = 1 /\ ~Succeeded

\* C10: every terminated run has either logged the completion message and
\* never called setFailed, or called setFailed exactly once and never logged
\* the completion message; setFailed is called only after a statement threw
\* an exception that reached the catch of run(); and, the awaited calls
\* settling, every run terminates.
C10_TerminalOutcome == [](ExclusiveOutcome) /\ <>Terminated

\* a run has failed after its statistics were published
C10_Witness ==
    /\ Terminated /\ Failed /\ ~Succeeded
    /\ Returned("setOutput", "repo-stats") # {}

----------------------------------------------------------------------------
(* C11.                                                                    *)

\* the log lines of index.js:120-130, of 139, of 146-154 and of 187-190
InputLines ==
    {"Starting Hello World Action...", "Who to greet: " \o Str(whoToGreet),
     "Message prefix: " \o Str(messagePrefix),
     "Include time: " \o (IF includeTime THEN "true" ELSE "false"),
     TokenLine(githubToken), "Generated greeting: " \o greeting}
TimeLines == {"Current time: " \o now : now \in ClockValues}
FetchLines ==
    {"Fetching repository statistics..."}
        \cup (IF repoStats.t = "obj" THEN {StatsLine(at) : at \in StatsLogSteps} ELSE {})
RenderLines ==
    {Pic("bar chart") \o " Hello World Action Results:"}
        \cup {RowLine(summaryTable[k]) : k \in 2..Len(summaryTable)}

\* the step of run() a host call belongs to: 1 resolve inputs, 2 log inputs,
\* 3 publish `message`, 4 publish `time`, 5 fetch stats and publish
\* `repo-stats`, 6 register secret, 7 render summary, 8 log completion,
\* 9 report the failure; 0 for a call of no step.  `lines` holds the log
\* lines of the steps 2, 4, 5 and 7
StepOf(c, lines) ==
    CASE c.fn = "getInput" -> 1
      [] c.fn = "setOutput" /\ c.a = "message" -> 3
      [] c.fn = "setOutput" /\ c.a = "time" -> 4
      [] c.fn = "setOutput" /\ c.a = "repo-stats" -> 5
      [] c.fn \in {"Octokit", "repos.get", "warning"} -> 5
      [] c.fn = "setSecret" -> 6
      [] c.fn \in {"summary.addHeading", "summary.addTable", "summary.write"} -> 7
      [] c.fn = "setFailed" -> 9
      [] c.fn = "info" /\ c.a \in lines.input -> 2
      [] c.fn = "info" /\ c.a \in lines.time -> 4
      [] c.fn = "info" /\ c.a \in lines.fetch -> 5
      [] c.fn = "info" /\ c.a \in lines.render -> 7
      [] c.fn = "info" /\ c.a = CompletedText -> 8
      [] OTHER -> 0

\* the calls whose exception left their step: every throwing call but the
\* two of getRepoStats (index.js:103) and the summary write (index.js:185)
Escaped ==
    {i \in 1..Len(calls) :
        /\ calls[i].threw
        /\ calls[i].fn \notin {"Octokit", "repos.get", "summary.addHeading",
                               "summary.addTable", "summary.write"}}

\* table construction threw (index.js:174-176)
TableThrew == \E j \in 1..Len(raised) : raised[j].by = "toString"

\* nothing follows position i of `calls` but one returned setFailed
OnlyReportAfter(i) ==
    /\ Len(calls) <= i + 1
    /\ Len(calls) = i + 1 => calls[i + 1].fn = "setFailed" /\ ~calls[i + 1].threw
    /\ Terminated => Len(calls) = i + 1

\* the steps of the calls made so far, in the order of the calls
StepsMade ==
    LET lines == [input |-> InputLines, time |-> TimeLines, fetch |-> FetchLines,
                  render |-> RenderLines]
    IN  [i \in 1..Len(calls) |-> StepOf(calls[i], lines)]

\* C11: the host calls of a run are made in the order of its steps -- resolve
\* inputs, log inputs, publish `message`, publish `time`, fetch stats and
\* publish `repo-stats`, register secret, render summary, log completion --
\* and once an exception has left a step (a throwing host call, or table
\* construction), the run makes no call of a later step: the one call that
\* follows is setFailed, made once.  A run whose setOutput('message') threw
\* never constructs the client nor sends the request.  (The order of all
\* calls is the order of every two neighbours.)
C11_ThrowAbortsRemainingSteps ==
    LET made == StepsMade
    IN  /\ \A i \in 1..Len(calls) : made[i] # 0
        /\ \A i \in 1..(Len(calls) - 1) : made[i] <= made[i + 1]
        /\ \A i \in Escaped : OnlyReportAfter(i)
        /\ TableThrew =>
             /\ \A i \in 1..Len(calls) : made[i] \notin {7, 8}
             /\ \A i \in CallsTo("setSecret") : OnlyReportAfter(i)
        /\ (\E i \in CallsOf("setOutput", "message") : calls[i].threw)
             => /\ CallsTo("Octokit") = {} /\ CallsTo("repos.get") = {}
                /\ \A i \in 1..Len(calls) : made[i] \in {1, 2, 3, 9}

\* setOutput('message') threw in a run that had a token, an owner and a repo
\* to fetch with, and the run ended with the failure report alone
C11_Witness ==
    /\ Terminated
    /\ FetchGuard(githubToken, ctx.owner, ctx.repo)
    /\ \E i \in CallsOf("setOutput", "message") :
         /\ calls[i].threw
         /\ Len(calls) = i + 1
         /\ calls[i + 1].fn = "setFailed"
    /\ CallsTo("Octokit") = {}


----------------------------------------------------------------------------
(* C12.                                                                    *)

\* the positions in `calls` of the calls of the chain of index.js:184
SinkCalls ==
    {i \in 1..Len(calls) :
        calls[i].fn \in {"summary.addHeading", "summary.addTable", "summary.write"}}
\* the position of the last of them, 0 before the first is made
SinkCall ==
    LET made == SinkCalls
    IN  IF made = {} THEN 0 ELSE CHOOSE i \in made : \A k \in made : k <= i
\* a call of the chain threw, or the write was rejected
SinkThrew ==
    LET last == SinkCall
    IN  last # 0 /\ calls[last].threw
\* the write has resolved
SinkReturned ==
    LET last == SinkCall
    IN  /\ pc # "L184_await"
        /\ last # 0
        /\ calls[last].fn = "summary.write"
        /\ ~calls[last].threw

\* the data rows the claim names, as log lines: Greeting; Timestamp when
\* `time` was published; the five repository rows when a record was obtained
ExpectedRowLines ==
    <<"   Greeting: " \o greeting>>
      \o (IF Returned("setOutput", "time") # {}
          THEN <<"   Timestamp: " \o CellText(currentTime)>> ELSE <<>>)
      \o (IF repoStats.t = "obj"
          THEN <<"   Repository: " \o Coerce(repoStats.v.name),
                 "   " \o StarsLabel \o ": " \o Coerce(repoStats.v.stars),
                 "   " \o ForksLabel \o ": " \o Coerce(repoStats.v.forks),
                 "   " \o IssuesLabel \o ": " \o Coerce(repoStats.v.issues),
                 "   " \o LanguageLabel \o ": " \o OrUnknown(repoStats.v.language)>>
          ELSE <<>>)

\* what the fallback and the last statement log: the heading, the rows, the
\* completion message
ExpectedAfterSink ==
    <<Pic("bar chart") \o " Hello World Action Results:">>
      \o ExpectedRowLines \o <<CompletedText>>

\* the calls made after the summary write
AfterSink == SubSeq(calls, SinkCall + 1, Len(calls))

\* a log call after the summary write threw
FallbackLogThrew == \E k \in 1..Len(AfterSink) : AfterSink[k].fn = "info" /\ AfterSink[k].threw

\* the positions after the summary write at which a row line was logged
RowLogs(line) == {k \in 1..Len(AfterSink) : AfterSink[k].fn = "info" /\ AfterSink[k].a = line}

\* C12 as stated: every terminated run whose summary write threw has not
\* called setFailed, has logged every data row exactly once, and has logged
\* the completion message.
C12_AsStated ==
    (Terminated /\ SinkThrew) =>
        /\ ~Failed
        /\ \A r \in 1..Len(ExpectedRowLines) :
             Cardinality(RowLogs(ExpectedRowLines[r])) = 1
        /\ Succeeded

\* C12, amended: each call of the summary chain is made at most once.  After
\* one of them threw, or the write was rejected,
\* the run logs the heading, then every data row once and in table order
\* (Greeting; Timestamp iff `time` was published; Repository, Stars, Forks,
\* Open Issues, Language iff a record was obtained), never the header row,
\* then the completion message; unless one of these log calls throws, the
\* run ends in SUCCESS with all of them made, and when one throws, setFailed
\* follows it with that log call's exception -- never the write's -- and the
\* rest is not logged.  After the write returned, no heading and no row is
\* logged: the completion message alone follows.
C12_SinkFallback ==
    LET made == SinkCalls
        last == SinkCall
        after == AfterSink
        expected == ExpectedAfterSink
    IN  made # {} =>
        /\ \A i, k \in made : calls[i].fn = calls[k].fn => i = k
        /\ \A i \in made : calls[i].threw => i = last
        /\ SinkThrew =>
             /\ \A k \in 1..Len(after) :
                  \/ /\ k <= Len(expected)
                     /\ after[k].fn = "info"
                     /\ after[k].a = expected[k]
                     /\ k > 1 => ~after[k - 1].threw
                  \/ /\ k > 1 /\ k = Len(after)
                     /\ after[k].fn = "setFailed"
                     /\ after[k - 1].threw
                     /\ raised[Len(raised)].at \in {"L187", "L189", "L193"}
                     /\ after[k].a = FailedText(raised[Len(raised)].message)
             /\ Len(summaryTable) = Len(ExpectedRowLines) + 1
             /\ summaryTable[1] = HeaderRow
             /\ (Terminated /\ ~FallbackLogThrew) =>
                  /\ Len(after) = Len(expected)
                  /\ Succeeded /\ ~Failed
        /\ SinkReturned =>
             /\ Len(after) <= 2
             /\ Len(after) >= 1 => after[1].fn = "info" /\ after[1].a = CompletedText
             /\ Len(after) = 2 => after[1].threw /\ after[2].fn = "setFailed"
             /\ (Terminated /\ Len(after) = 1) => Succeeded /\ ~Failed

\* the write was rejected in a run with a timestamp and a record: the seven rows
\* were logged under the heading and the run completed
C12_Witness ==
    /\ Terminated /\ SinkThrew
    /\ calls[SinkCall].fn = "summary.write"
    /\ Len(ExpectedRowLines) = 7
    /\ Len(AfterSink) = 9
    /\ Succeeded /\ ~Failed
    /\ AfterSink[3].a = "   Timestamp: 2023-01-01T12:00:00.000Z"
    /\ AfterSink[5].a = "   " \o StarsLabel \o ": 42"


====
